---- MODULE Spec2Model ----
(***************************************************************************)
(* Model of fixedpoint.py: the bit-width propagation class prop and the    *)
(* quantizer class q.                                                      *)
(*                                                                         *)
(* Real values are dyadic rationals m * 2^e, kept as records [m, e] in     *)
(* normal form (m odd, or m = 0 and e = 0).  The source computes them as   *)
(* Python ints and IEEE-754 doubles; within the bounds below every value   *)
(* has a mantissa far shorter than 53 bits, so sums, differences and       *)
(* products are exact in the source and exact here.  The one inexact       *)
(* floating-point step of the source, math.log(v) / math.log(2), is        *)
(* modelled by log2 below.                                                 *)
(***************************************************************************)
EXTENDS Integers, Sequences, FiniteSets, TLC

VARIABLES
    x, y,     \* the operand formats the caller holds
    z,        \* what the last call returned or raised
    op,       \* the last call
    req,      \* the triple the last constructor call was given
    src,      \* how x was derived: the operation and its operand
    depth,    \* how many derived formats were used as operands
    qf,       \* the quantizer's format
    raw,      \* the raw value last handed to the quantizer
    out       \* what the quantizer returned or raised

vars == <<x, y, z, op, req, src, depth, qf, raw, out>>

(***************************************************************************)
(* Bounds of the model.                                                    *)
(***************************************************************************)
\* largest word_length of a leaf format
MaxW == 2
\* number of times a derived format is used as an operand again
MaxDepth == 1
\* largest word_length of a quantizer
MaxQW == 4
\* operands of one operation have at most MaxBits bits between them
MaxBits == 8
\* the bit positions of the operands of an add/subtract span at most MaxWindow
MaxWindow == 12
\* largest fractional_length handed to range-to-format
MaxFrac == 140

\* integer_length values of the leaf formats: ordinary widths, the
\* neighbourhood of the exponents +-29 where the double quotient
\* log(2^k)/log(2) first misses k, and one below the -128 sentinel of
\* range-to-format
IntLens == {-130, -29, -28, -1, 0, 1, 2, 29}

(***************************************************************************)
(* Dyadic arithmetic (Python int / float arithmetic, exact in range).      *)
(***************************************************************************)
B2I(b) == IF b THEN 1 ELSE 0

Pow2(n) == 2 ^ n

RECURSIVE BitLen(_)
BitLen(n) == IF n = 0 THEN 0 ELSE 1 + BitLen(n \div 2)

RECURSIVE Norm(_, _)
Norm(m, e) ==
    IF m = 0 THEN [m |-> 0, e |-> 0]
    ELSE IF m % 2 = 0 THEN Norm(m \div 2, e + 1)
    ELSE [m |-> m, e |-> e]

Zero == Norm(0, 0)

\* 2 ** k for any integer k
TwoTo(k) == [m |-> 1, e |-> k]

DyNeg(a) == [m |-> -a.m, e |-> a.e]

DyAdd(a, b) ==
    IF a.m = 0 THEN b
    ELSE IF b.m = 0 THEN a
    ELSE LET le == IF a.e < b.e THEN a.e ELSE b.e
         IN  Norm(a.m * Pow2(a.e - le) + b.m * Pow2(b.e - le), le)

DySub(a, b) == DyAdd(a, DyNeg(b))

DyMul(a, b) == Norm(a.m * b.m, a.e + b.e)

Sgn(a) == IF a.m > 0 THEN 1 ELSE IF a.m < 0 THEN -1 ELSE 0

\* a < b for a, b > 0
PosLess(a, b) ==
    LET ta == a.e + BitLen(a.m)
        tb == b.e + BitLen(b.m)
        le == IF a.e < b.e THEN a.e ELSE b.e
    IN  IF ta # tb THEN ta < tb
        ELSE a.m * Pow2(a.e - le) < b.m * Pow2(b.e - le)

DyLess(a, b) ==
    IF Sgn(a) # Sgn(b) THEN Sgn(a) < Sgn(b)
    ELSE IF Sgn(a) = 0 THEN FALSE
    ELSE IF Sgn(a) = 1 THEN PosLess(a, b)
    ELSE PosLess(DyNeg(b), DyNeg(a))

DyLeq(a, b) == a = b \/ DyLess(a, b)

\* Python's max(a, b) and min(a, b)
DyMax(a, b) == IF DyLess(a, b) THEN b ELSE a

DyMin(a, b) == IF DyLess(b, a) THEN b ELSE a

IntMax(a, b) == IF b > a THEN b ELSE a

(***************************************************************************)
(* class prop: construction and queries.                                   *)
(***************************************************************************)
Fmt(w, i, s) == [word_length |-> w, integer_length |-> i, signed |-> s]

NoFmt == Fmt(0, 0, FALSE)

Ok(f) == [err |-> "none", f |-> f]

Raise(e) == [err |-> e, f |-> NoFmt]

\* prop.__init__: ValueError("Word length must be >= 1")
prop(w, i, s) == IF w < 1 THEN Raise("InvalidFormat") ELSE Ok(Fmt(w, i, s))

fractional_length(f) == f.word_length - B2I(f.signed) - f.integer_length

max(f) == Norm(Pow2(f.word_length - B2I(f.signed)) - 1, -fractional_length(f))

\* (-2) ** integer_length in place of -(2 ** integer_length)
min_parenthesised(f) ==
    IF f.signed
    THEN (IF f.integer_length % 2 = 0 THEN TwoTo(f.integer_length)
          ELSE DyNeg(TwoTo(f.integer_length)))
    ELSE Zero

min(f) == IF f.signed THEN DyNeg(TwoTo(f.integer_length)) ELSE Zero

\* 2 ** fractional_length in place of 2 ** -fractional_length
smallest_unnegated(f) == TwoTo(fractional_length(f))

smallest(f) == TwoTo(-fractional_length(f))

(***************************************************************************)
(* prop._create_obj (range-to-format).                                     *)
(***************************************************************************)
\* The exponents k in -160..100 for which the IEEE-754 double quotient
\* math.log(2.0**k) / math.log(2) is not the double k: it lies one or two
\* units in the last place farther from zero than k.
Log2Inexact ==
    {-156, -141, -125, -124, -118, -117, -116, -110, -109, -102, -101, -95,
     -94, -93, -78, -62, -59, -58, -55, -51, -47, -39, -31, -29,
     29, 31, 39, 47, 51, 55, 58, 59, 62, 78, 93, 94, 95}

\* math.log(v) / math.log(2) for v > 0, as far as the source looks at it:
\* its ceiling, and whether it is a whole number.  For a v that is no power
\* of two the quotient is farther from every integer than its rounding error.
log2(v) ==
    IF v.m = 1
    THEN IF v.e \in Log2Inexact
         THEN [ceil |-> IF v.e > 0 THEN v.e + 1 ELSE v.e, whole |-> FALSE]
         ELSE [ceil |-> v.e, whole |-> TRUE]
    ELSE [ceil |-> v.e + BitLen(v.m), whole |-> FALSE]

\* lines 162-177: the triple handed to the constructor
RangeToTriple(max_value, min_value, fl) ==
    LET signed == min_value # Zero
        lmax == log2(max_value)
        log2_max_side == IF lmax.whole THEN lmax.ceil + 1 ELSE lmax.ceil
        log2_min_side == IF min_value = Zero THEN -128
                         ELSE log2(DyNeg(min_value)).ceil
        integer_length == IntMax(log2_max_side, log2_min_side)
    IN  Fmt(B2I(signed) + integer_length + fl, integer_length, signed)

\* math.log raises ValueError (math domain error) for an argument <= 0
create_obj(max_value, min_value, fl) ==
    IF ~DyLess(Zero, max_value) THEN Raise("DomainError")
    ELSE IF DyLess(Zero, min_value) THEN Raise("DomainError")
    ELSE LET t == RangeToTriple(max_value, min_value, fl)
         IN  prop(t.word_length, t.integer_length, t.signed)

(***************************************************************************)
(* class prop: the operations.                                             *)
(***************************************************************************)
abs(f) ==
    IF f.signed THEN prop(f.word_length, f.integer_length + 1, FALSE)
    ELSE Ok(f)

\* the signed branch widens the word but not the integer part
neg_same_integer_length(f) ==
    IF f.signed THEN prop(f.word_length + 1, f.integer_length, f.signed)
    ELSE prop(f.word_length + 1, f.integer_length, TRUE)

neg(f) ==
    IF f.signed THEN prop(f.word_length + 1, f.integer_length + 1, f.signed)
    ELSE prop(f.word_length + 1, f.integer_length, TRUE)

\* the fractional length is not doubled
sqr_single_fraction(f) ==
    LET integer_length == 2 * f.integer_length + (IF f.signed THEN 1 ELSE 0)
        fl == f.word_length - B2I(f.signed) - f.integer_length
    IN  prop(integer_length + fl, integer_length, FALSE)

sqr(f) ==
    LET integer_length == 2 * f.integer_length + (IF f.signed THEN 1 ELSE 0)
        fl == 2 * (f.word_length - B2I(f.signed) - f.integer_length)
    IN  prop(integer_length + fl, integer_length, FALSE)

AddMax(f, g) == DyAdd(max(f), max(g))

AddMin(f, g) == DyAdd(min(f), min(g))

SubMax(f, g) == DySub(max(f), min(g))

SubMin(f, g) == DySub(min(f), max(g))

MulMax(f, g) == DyMax(DyMul(max(f), max(g)), DyMul(min(f), min(g)))

MulMin(f, g) == DyMin(DyMul(max(f), min(g)), DyMul(min(f), max(g)))

AddFrac(f, g) == IntMax(fractional_length(f), fractional_length(g))

MulFrac(f, g) == fractional_length(f) + fractional_length(g)

add(f, g) == create_obj(AddMax(f, g), AddMin(f, g), AddFrac(f, g))

sub(f, g) == create_obj(SubMax(f, g), SubMin(f, g), AddFrac(f, g))

mul(f, g) == create_obj(MulMax(f, g), MulMin(f, g), MulFrac(f, g))

(***************************************************************************)
(* class q: the quantizer.                                                 *)
(***************************************************************************)
Val(v) == [err |-> "none", v |-> v]

OutOfRange == [err |-> "OutOfRange", v |-> Zero]

\* > in place of >= in the test for the sign bit
float_strict_sign_test(f, uint_val) ==
    IF uint_val < 0 THEN OutOfRange
    ELSE IF uint_val > Pow2(f.word_length) - 1 THEN OutOfRange
    ELSE LET u == IF f.signed /\ uint_val > Pow2(f.word_length - 1)
                  THEN uint_val - Pow2(f.word_length)
                  ELSE uint_val
             fractional == IF f.signed
                           THEN f.word_length - 1 - f.integer_length
                           ELSE f.word_length - f.integer_length
         IN  Val(Norm(u, -fractional))

float(f, uint_val) ==
    IF uint_val < 0 THEN OutOfRange
    ELSE IF uint_val > Pow2(f.word_length) - 1 THEN OutOfRange
    ELSE LET u == IF f.signed /\ uint_val >= Pow2(f.word_length - 1)
                  THEN uint_val - Pow2(f.word_length)
                  ELSE uint_val
             fractional == IF f.signed
                           THEN f.word_length - 1 - f.integer_length
                           ELSE f.word_length - f.integer_length
         IN  Val(Norm(u, -fractional))

(***************************************************************************)
(* The caller of class prop: constructs leaf formats, applies the          *)
(* operations, and uses derived formats as operands again (example.py).    *)
(***************************************************************************)
Leaf == {Fmt(w, i, s) : w \in 1..MaxW, i \in IntLens, s \in BOOLEAN}

NoResult == [err |-> "unset", f |-> NoFmt]

NoSrc == [op |-> "leaf", arg |-> NoFmt]

\* prop(): the default object
Default == Fmt(1, 1, FALSE)

InitQFixed ==
    /\ qf = Default
    /\ raw = 0
    /\ out = [err |-> "unset", v |-> Zero]

Init ==
    /\ x \in Leaf
    /\ y \in Leaf
    /\ z = NoResult
    /\ op = "init"
    /\ req = NoFmt
    /\ src = NoSrc
    /\ depth = 0
    /\ InitQFixed

\* bit positions a format's values occupy: [-fractional_length, integer_length]
Window(f, g) ==
    IntMax(f.integer_length, g.integer_length)
        + IntMax(fractional_length(f), fractional_length(g))

UnaryInput(f) == f.word_length <= MaxBits

BinaryInput(f, g) == f.word_length + g.word_length <= MaxBits

AddInput(f, g) ==
    /\ BinaryInput(f, g)
    /\ Window(f, g) <= MaxWindow
    /\ AddFrac(f, g) <= MaxFrac

MulInput(f, g) ==
    /\ BinaryInput(f, g)
    /\ MulFrac(f, g) <= MaxFrac

Call(name, result) ==
    /\ z' = result
    /\ op' = name
    /\ req' = NoFmt
    /\ UNCHANGED <<x, y, src, depth, qf, raw, out>>

\* the caller constructs a leaf again with another word length, 0 included
Construct ==
    \E w \in 0..MaxW :
        /\ depth = 0
        /\ z' = prop(w, y.integer_length, y.signed)
        /\ op' = "new"
        /\ req' = Fmt(w, y.integer_length, y.signed)
        /\ UNCHANGED <<x, y, src, depth, qf, raw, out>>

Abs == UnaryInput(x) /\ Call("abs", abs(x))

Neg == UnaryInput(x) /\ Call("neg", neg(x))

Sqr == UnaryInput(x) /\ Call("sqr", sqr(x))

Add == AddInput(x, y) /\ Call("add", add(x, y))

Sub == AddInput(x, y) /\ Call("sub", sub(x, y))

Mul == MulInput(x, y) /\ Call("mul", mul(x, y))

\* what the caller remembers of a derived operand: nx = -x keeps x
Derived(name, f) ==
    IF name = "neg" THEN [op |-> name, arg |-> f] ELSE [op |-> name, arg |-> NoFmt]

\* nnx = -nx, sqr_nx = nx.sqr(): the result becomes the left operand
UseAsX ==
    /\ z.err = "none"
    /\ depth < MaxDepth
    /\ x' = z.f
    /\ src' = Derived(op, x)
    /\ z' = NoResult
    /\ op' = "init"
    /\ req' = NoFmt
    /\ depth' = depth + 1
    /\ UNCHANGED <<y, qf, raw, out>>

\* mult + mult, cx_sqr + cx_sqr: the result becomes both operands
UseAsBoth ==
    /\ z.err = "none"
    /\ depth < MaxDepth
    /\ x' = z.f
    /\ y' = z.f
    /\ src' = Derived(op, x)
    /\ z' = NoResult
    /\ op' = "init"
    /\ req' = NoFmt
    /\ depth' = depth + 1
    /\ UNCHANGED <<qf, raw, out>>

Next ==
    \/ Construct
    \/ Abs
    \/ Neg
    \/ Sqr
    \/ Add
    \/ Sub
    \/ Mul
    \/ UseAsX
    \/ UseAsBoth

Spec == Init /\ [][Next]_vars

(***************************************************************************)
(* The caller of class q.                                                  *)
(***************************************************************************)
InitQ ==
    /\ qf \in {Fmt(w, i, s) : w \in 1..MaxQW, i \in IntLens, s \in BOOLEAN}
    /\ raw = 0
    /\ out = [err |-> "unset", v |-> Zero]
    /\ x = Default
    /\ y = Default
    /\ z = NoResult
    /\ op = "init"
    /\ req = NoFmt
    /\ src = NoSrc
    /\ depth = 0

Decode ==
    \E r \in (-2)..(Pow2(qf.word_length) + 1) :
        /\ raw' = r
        /\ out' = float(qf, r)
        /\ UNCHANGED <<x, y, z, op, req, src, depth, qf>>

NextQ == Decode

SpecQ == InitQ /\ [][NextQ]_vars

(***************************************************************************)
(* Vocabulary of the properties.                                           *)
(***************************************************************************)
\* the 2^word_length values a format represents
Values(f) ==
    {DyAdd(min(f), DyMul(Norm(k, 0), smallest(f))) :
        k \in 0..(Pow2(f.word_length) - 1)}

InRange(v, f) == DyLeq(min(f), v) /\ DyLeq(v, max(f))

\* v is a whole multiple of smallest(f)
OnGrid(v, f) == v.m = 0 \/ v.e >= -fractional_length(f)

Representable(v, f) == InRange(v, f) /\ OnGrid(v, f)

DyAbs(v) == IF v.m < 0 THEN DyNeg(v) ELSE v

\* the least I with mx < 2^I and -mn <= 2^I
LeastI(mx, mn) ==
    CHOOSE I \in (-300)..100 :
        LET fits(J) == DyLess(mx, TwoTo(J)) /\ DyLeq(DyNeg(mn), TwoTo(J))
        IN  fits(I) /\ ~fits(I - 1)

\* the range and fractional length the last binary call handed to
\* range-to-format
ArgMax == IF op = "add" THEN AddMax(x, y)
          ELSE IF op = "sub" THEN SubMax(x, y) ELSE MulMax(x, y)

ArgMin == IF op = "add" THEN AddMin(x, y)
          ELSE IF op = "sub" THEN SubMin(x, y) ELSE MulMin(x, y)

ArgFrac == IF op = "mul" THEN MulFrac(x, y) ELSE AddFrac(x, y)

(***************************************************************************)
(* C1.  multiply(x, y) yields a format m with                              *)
(* m.min_value() <= a*b <= m.max_value() for every a that x holds and      *)
(* every b that y holds.  Stated as the claim states it; the code breaks   *)
(* it.                                                                     *)
(***************************************************************************)
C1_MultiplyCovers ==
    op = "mul" =>
        /\ z.err = "none"
        /\ \A a \in Values(x), b \in Values(y) : InRange(DyMul(a, b), z.f)

(***************************************************************************)
(* C2.  Every sum a+b (add) and every difference a-b (subtract) of a value *)
(* of x and a value of y lies within [min_value, max_value] of the derived *)
(* format z and is a multiple of z.smallest_magnitude(), and z's           *)
(* fractional length is max(frac(x), frac(y)).  Stated as the claim states *)
(* it; the code breaks it.                                                 *)
(***************************************************************************)
C2_AddSubExact ==
    /\ op = "add" =>
        /\ z.err = "none"
        /\ fractional_length(z.f) = AddFrac(x, y)
        /\ \A a \in Values(x), b \in Values(y) : Representable(DyAdd(a, b), z.f)
    /\ op = "sub" =>
        /\ z.err = "none"
        /\ fractional_length(z.f) = AddFrac(x, y)
        /\ \A a \in Values(x), b \in Values(y) : Representable(DySub(a, b), z.f)

(***************************************************************************)
(* C3.  For every value v of x: -v is representable in negate(x), |v| in   *)
(* absolute(x) and v*v in square(x); and the range of negate(negate(x))    *)
(* contains the range of x.                                                *)
(***************************************************************************)
C3_UnaryCovers ==
    /\ op = "neg" =>
        /\ z.err = "none"
        /\ \A v \in Values(x) : Representable(DyNeg(v), z.f)
    /\ op = "abs" =>
        /\ z.err = "none"
        /\ \A v \in Values(x) : Representable(DyAbs(v), z.f)
    /\ op = "sqr" =>
        /\ z.err = "none"
        /\ \A v \in Values(x) : Representable(DyMul(v, v), z.f)
    /\ (op = "neg" /\ src.op = "neg") =>
        /\ z.err = "none"
        /\ DyLeq(min(z.f), min(src.arg))
        /\ DyLeq(max(src.arg), max(z.f))

\* negate(negate(x)) of a signed x has been derived
C3_Witness ==
    /\ op = "neg"
    /\ src.op = "neg"
    /\ src.arg.signed
    /\ z.err = "none"
    /\ z.f.word_length = src.arg.word_length + 2

(***************************************************************************)
(* C4.  Every leaf format has max_value() > 0, so add, subtract and        *)
(* multiply of leaf formats never hand range-to-format a max_value <= 0    *)
(* and never fail with DomainError.  Stated as the claim states it; the    *)
(* code breaks it.                                                         *)
(***************************************************************************)
C4_LeafMaxPositive ==
    (depth = 0 /\ op \in {"add", "sub", "mul"}) =>
        /\ DyLess(Zero, max(x))
        /\ DyLess(Zero, max(y))
        /\ DyLess(Zero, ArgMax)
        /\ z.err # "DomainError"

(***************************************************************************)
(* C5.  Construction fails with InvalidFormat exactly when                 *)
(* word_length < 1, every format held has word_length >= 1, and no         *)
(* operation on formats fails with InvalidFormat.  Stated as the claim     *)
(* states it; the code breaks it.                                          *)
(***************************************************************************)
C5_WordLengthInvariant ==
    /\ op = "new" => (z.err = "InvalidFormat" <=> req.word_length < 1)
    /\ x.word_length >= 1
    /\ y.word_length >= 1
    /\ z.err = "none" => z.f.word_length >= 1
    /\ op \in {"neg", "abs", "sqr", "add", "sub", "mul"} => z.err # "InvalidFormat"

(***************************************************************************)
(* C6.  For every format, leaf or derived, min_value() <= max_value(),     *)
(* and min_value() = 0 exactly when the format is unsigned.                *)
(***************************************************************************)
Held == {x, y} \cup (IF z.err = "none" THEN {z.f} ELSE {})

C6_MinMaxOrder ==
    \A f \in Held :
        /\ DyLeq(min(f), max(f))
        /\ (min(f) = Zero) <=> ~f.signed

\* a signed format derived from a derived operand
C6_Witness ==
    /\ depth = 1
    /\ op = "sub"
    /\ z.err = "none"
    /\ z.f.signed
    /\ DyLess(min(z.f), Zero)
    /\ DyLess(Zero, max(z.f))

(***************************************************************************)
(* C7.  decode(raw) fails with OutOfRange exactly when raw < 0 or          *)
(* raw > 2^W - 1, and otherwise returns v * 2^(-fractional_length) with    *)
(* v = raw - 2^W if the format is signed and raw >= 2^(W-1), v = raw       *)
(* otherwise; (4,2,unsigned): 5 -> 1.25, 15 -> 3.75; (4,2,signed):         *)
(* 8 -> -4.0, 15 -> -0.5.                                                  *)
(***************************************************************************)
C7_DecodeContract ==
    out.err # "unset" =>
        LET W == qf.word_length
            v == IF qf.signed /\ raw >= Pow2(W - 1) THEN raw - Pow2(W) ELSE raw
        IN  /\ out.err = "OutOfRange" <=> (raw < 0 \/ raw > Pow2(W) - 1)
            /\ out.err = "none" =>
                   out.v = DyMul(Norm(v, 0), TwoTo(-fractional_length(qf)))
            /\ (qf = Fmt(4, 2, FALSE) /\ raw = 0) => out = Val(Zero)
            /\ (qf = Fmt(4, 2, FALSE) /\ raw = 5) => out = Val(Norm(5, -2))
            /\ (qf = Fmt(4, 2, FALSE) /\ raw = 15) => out = Val(Norm(15, -2))
            /\ (qf = Fmt(4, 2, TRUE) /\ raw = 8) => out = Val(Norm(-4, 0))
            /\ (qf = Fmt(4, 2, TRUE) /\ raw = 15) => out = Val(Norm(-1, -1))

\* the signed quantizer (4, 2) has decoded 8 to -4.0
C7_Witness ==
    /\ qf = Fmt(4, 2, TRUE)
    /\ raw = 8
    /\ out = Val(Norm(-4, 0))

(***************************************************************************)
(* C8.  range-to-format(max_value, min_value, fractional_length) with      *)
(* max_value > 0 and min_value <= 0 returns signed' = (min_value # 0),     *)
(* integer_length' = the least I with max_value < 2^I and                  *)
(* -min_value <= 2^I (so with min_value = 0 the sentinel never decides     *)
(* it), and word_length' = signed' + integer_length' + fractional_length.  *)
(* Stated as the claim states it; the code breaks it.                      *)
(***************************************************************************)
C8_RangeToFormatLeast ==
    (/\ op \in {"add", "sub", "mul"}
     /\ DyLess(Zero, ArgMax)
     /\ DyLeq(ArgMin, Zero)) =>
        LET t == RangeToTriple(ArgMax, ArgMin, ArgFrac)
        IN  /\ t.signed = (ArgMin # Zero)
            /\ t.integer_length = LeastI(ArgMax, ArgMin)
            /\ t.word_length = B2I(t.signed) + t.integer_length + ArgFrac
            /\ z = prop(t.word_length, t.integer_length, t.signed)

(***************************************************************************)
(* C9.  decode maps the raw values 0 .. 2^W - 1 one-to-one onto the grid   *)
(* { min_value() + k * smallest_magnitude() : 0 <= k <= 2^W - 1 } of the   *)
(* format with the same triple; the least decoded value is min_value(),    *)
(* the greatest max_value(), and max_value() less 2^W - 1 steps of         *)
(* smallest_magnitude() is min_value().                                    *)
(***************************************************************************)
Decoded == {float(qf, r).v : r \in 0..(Pow2(qf.word_length) - 1)}

C9_DecodeGrid ==
    /\ \A r \in 0..(Pow2(qf.word_length) - 1) : float(qf, r).err = "none"
    /\ Decoded = Values(qf)
    /\ Cardinality(Decoded) = Pow2(qf.word_length)
    /\ min(qf) \in Decoded
    /\ max(qf) \in Decoded
    /\ \A d \in Decoded : InRange(d, qf)
    /\ DySub(max(qf), DyMul(Norm(Pow2(qf.word_length) - 1, 0), smallest(qf)))
           = min(qf)
    /\ out.err = "none" => out.v \in Values(qf)

\* a signed quantizer has decoded the raw value 2^(W-1) to min_value()
C9_Witness ==
    /\ qf.signed
    /\ qf.word_length >= 2
    /\ raw = Pow2(qf.word_length - 1)
    /\ out = Val(min(qf))

====
